---- MODULE Spec2Model ----
(***************************************************************************)
(* HomeLibrary: the relational store (user, library, user_library, book,   *)
(* user_book_status) and the service functions and request handlers that   *)
(* read and write it.  Every request runs in its own database session; a   *)
(* handler that reads, awaits and then writes is split at the await, so    *)
(* that other requests can run in between.  A request that neither writes  *)
(* nor is suspended leaves every variable as it is; what its handler       *)
(* returns or raises is the value of the handler's _status operator.       *)
(***************************************************************************)
EXTENDS Integers, Sequences, FiniteSets, Bags, TLC

VARIABLES
    users,            \* table user:             id -> [username, email, password_hash]
    libraries,        \* table library:          id -> [name, password_hash, owner_id]
    user_library,     \* table user_library:     bag of [user_id, library_id, role]
    books,            \* table book:             id -> [library_id, user_id, author, description]
    user_book_status, \* table user_book_status: set of [user_id, book_id, read_status]
    last_user_id,     \* autoincrement counters (sqlite_autoincrement: ids are never reused)
    last_library_id,
    last_book_id,
    fk_enforced,      \* whether the storage engine enforces FOREIGN KEY constraints
    inflight,         \* bag of requests suspended at an await between a read and a write
    resp              \* the answer of the request that last wrote to the store or
                      \* finished after having been suspended

dbVars == <<users, libraries, user_library, books, user_book_status>>
idVars == <<last_user_id, last_library_id, last_book_id>>
vars == <<users, libraries, user_library, books, user_book_status,
          last_user_id, last_library_id, last_book_id, fk_enforced, inflight, resp>>

----------------------------------------------------------------------------
(* Bounds of the model *)
MaxUsers == 2
MaxLibraries == 1
MaxBooks == 1
MaxInflight == 2

(* SQL NULL / Python None: of a string, of an id, of a password hash *)
NULL == "NULL"
NULL_ID == 0
NULL_HASH == <<>>

(* Inputs of the requests *)
Registrations == {<<"ann", NULL>>, <<"bob", "a@x">>}
UserPassword == "pw"
LibraryNames == {"", "home"}
NewNames == {"2"}
LibraryPasswords == {NULL, "p"}
Passwords == {NULL, "p", "q"}
Authors == {"a1", "a2"}
Descriptions == {NULL, "d1"}

UserIds == 1..MaxUsers
LibraryIds == 1..MaxLibraries
BookIds == 1..MaxBooks

(* models/enum.py *)
ReadStatus == {"not_read", "reading", "read"}
LibraryRole == {"owner", "member", "guest"}

----------------------------------------------------------------------------
(* Credential store (app/utils/hashing.py) *)
hash_password(p) == <<p>>
verify_password(p, h) == p # NULL /\ h = hash_password(p)

(* str.strip() on the names the model uses *)
Strip(s) == IF s = " " THEN "" ELSE s

(* str.isdigit() and int() on the identifiers the model uses *)
IsDigit(s) == \E i \in 0..(MaxLibraries + 1) : ToString(i) = s
ToInt(s) == CHOOSE i \in 0..(MaxLibraries + 1) : ToString(i) = s

----------------------------------------------------------------------------
(* Queries *)

Row(u, l, r) == [user_id |-> u, library_id |-> l, role |-> r]

(* the rows of user_library for (u, l), each as many times as it is stored *)
MembershipRows(u, l) ==
    {m \in BagToSet(user_library) : m.user_id = u /\ m.library_id = l}

is_library_member(u, l) == MembershipRows(u, l) # {}

RECURSIVE SumCopies(_, _)
SumCopies(S, B) ==
    IF S = {} THEN 0
    ELSE LET e == CHOOSE x \in S : TRUE
         IN  CopiesIn(e, B) + SumCopies(S \ {e}, B)

(* number of user_library rows stored for (u, l) *)
MembershipCount(u, l) == SumCopies(MembershipRows(u, l), user_library)

(* user_library without any row of the set S *)
WithoutRows(B, S) == [e \in (DOMAIN B) \ S |-> B[e]]

Response(op, u, l, b, st) ==
    [op |-> op, user |-> u, lib |-> l, book |-> b, status |-> st]

Request(pc, u, l, b, data, perm) ==
    [pc |-> pc, user |-> u, lib |-> l, book |-> b, data |-> data, perm |-> perm]

NoData == [author |-> NULL, description |-> NULL, read_status |-> NULL]
NoPerm == [can_edit_full |-> FALSE, can_edit_status |-> FALSE,
           can_edit_description |-> FALSE, can_delete |-> FALSE,
           role |-> NULL, is_book_creator |-> FALSE]

CanStart == BagCardinality(inflight) < MaxInflight

----------------------------------------------------------------------------
Init ==
    /\ users = <<>>
    /\ libraries = <<>>
    /\ user_library = EmptyBag
    /\ books = <<>>
    /\ user_book_status = {}
    /\ last_user_id = 0
    /\ last_library_id = 0
    /\ last_book_id = 0
    /\ fk_enforced \in BOOLEAN
    /\ inflight = EmptyBag
    /\ resp = Response("init", NULL_ID, NULL_ID, NULL_ID, "ok")

----------------------------------------------------------------------------
(* user_service.create_user *)
UserConflict(username, email) ==
    \E u \in DOMAIN users :
        users[u].email = email \/ users[u].username = username

create_user_status(username, email) ==
    IF UserConflict(username, email) THEN "HTTP_409" ELSE "ok"

CreateUser(username, email) ==
    /\ IF create_user_status(username, email) = "ok"
       THEN /\ last_user_id < MaxUsers
            /\ last_user_id' = last_user_id + 1
            /\ users' = [u \in DOMAIN users \cup {last_user_id + 1} |->
                            IF u \in DOMAIN users THEN users[u]
                            ELSE [username |-> username, email |-> email,
                                  password_hash |-> hash_password(UserPassword)]]
            /\ resp' = Response("create_user", last_user_id + 1, NULL_ID, NULL_ID, "ok")
       ELSE UNCHANGED <<users, last_user_id, resp>>
    /\ UNCHANGED <<libraries, user_library, books, user_book_status,
                   last_library_id, last_book_id, fk_enforced, inflight>>

----------------------------------------------------------------------------
(* library_service.create_library.  The unique constraint on library.name   *)
(* raises IntegrityError at the flush; `except Exception` precedes          *)
(* `except IntegrityError`, so the session is rolled back and the           *)
(* IntegrityError is re-raised as it is.  The library row and the owner's   *)
(* membership row are written by the same commit.                           *)
NameTaken(name) == \E l \in DOMAIN libraries : libraries[l].name = name

create_library_status(name) ==
    IF name = "" THEN "HTTP_400"
    ELSE IF NameTaken(name) THEN "IntegrityError"
    ELSE "ok"

(* line 103: Library(name=name, password_hash=hashed, owner_id=owner_id) *)
LibraryRow(name, password, owner_id) ==
    [name |-> name,
     password_hash |-> IF password # NULL THEN hash_password(password) ELSE NULL_HASH,
     owner_id |-> owner_id]

(* create_library adding the creator with role member instead of owner *)
OwnerRow_as_member(owner_id, lib) == Row(owner_id, lib, "member")

OwnerRow(owner_id, lib) == Row(owner_id, lib, "owner")

create_library(name, password, owner_id) ==
    /\ owner_id \in DOMAIN users
    /\ LET lib == last_library_id + 1
       IN  IF create_library_status(name) = "ok"
           THEN /\ last_library_id' = lib
                /\ libraries' = [l \in DOMAIN libraries \cup {lib} |->
                      IF l \in DOMAIN libraries THEN libraries[l]
                      ELSE LibraryRow(name, password, owner_id)]
                /\ user_library' = user_library (+) SetToBag({OwnerRow(owner_id, lib)})
                /\ resp' = Response("create_library", owner_id, lib, NULL_ID, "ok")
           ELSE UNCHANGED <<libraries, user_library, last_library_id, resp>>
    /\ UNCHANGED <<users, books, user_book_status, last_user_id, last_book_id,
                   fk_enforced, inflight>>

(* create_library while fewer than MaxLibraries libraries were created *)
CreateLibrary(name, password, owner_id) ==
    /\ last_library_id < MaxLibraries
    /\ create_library(name, password, owner_id)

(* a rollback that keeps what the session had flushed, as if the flush of   *)
(* line 105 were a commit                                                   *)
rollback_keeps_flushed(pending) == {x \in pending : x.flushed}

(* db.rollback(): of the rows the open transaction has flushed or holds     *)
(* pending, those that remain in the store                                  *)
rollback(pending) == {}

(* lines 105-118: the library row is flushed, then the flush of the         *)
(* membership row, the commit of line 110 or another statement before it    *)
(* raises; `except Exception` rolls the session back and re-raises          *)
CreateLibraryFails(name, password, owner_id) ==
    /\ owner_id \in DOMAIN users
    /\ create_library_status(name) = "ok"
    /\ last_library_id < MaxLibraries
    /\ LET lib == last_library_id + 1
           pending == {[table |-> "library", flushed |-> TRUE],
                       [table |-> "user_library", flushed |-> FALSE]}
           kept == {x.table : x \in rollback(pending)}
       IN  /\ libraries' = [l \in DOMAIN libraries \cup
                                  (IF "library" \in kept THEN {lib} ELSE {}) |->
                 IF l \in DOMAIN libraries THEN libraries[l]
                 ELSE LibraryRow(name, password, owner_id)]
           /\ last_library_id' = IF "library" \in kept THEN lib ELSE last_library_id
           /\ user_library' = IF "user_library" \in kept
                               THEN user_library (+) SetToBag({OwnerRow(owner_id, lib)})
                               ELSE user_library
    /\ resp' = Response("create_library", owner_id, NULL_ID, NULL_ID, "Exception")
    /\ UNCHANGED <<users, books, user_book_status, last_user_id, last_book_id,
                   fk_enforced, inflight>>

----------------------------------------------------------------------------
(* library_service.join_library.  An int identifier and a string of digits  *)
(* select the same rows (SQLite compares the TEXT column name with the      *)
(* integer as text), so identifiers are strings.                            *)
Identifiers == LibraryNames \cup {ToString(i) : i \in LibraryIds}

(* the rows the first query can return, then the rows of the second query *)
JoinCandidates(ident) ==
    LET byIdOrName == IF IsDigit(ident)
                      THEN {l \in DOMAIN libraries :
                               l = ToInt(ident) \/ libraries[l].name = ident}
                      ELSE {}
    IN  IF byIdOrName # {} THEN byIdOrName
        ELSE {l \in DOMAIN libraries : libraries[l].name = ident}

(* join_library without the password check of a private library *)
PasswordOk_unchecked(lib, password) == TRUE

PasswordOk(lib, password) ==
    \/ libraries[lib].password_hash = NULL_HASH
    \/ verify_password(password, libraries[lib].password_hash)

(* what join_library does for the library lib its lookup returned: raise    *)
(* 401, return the library ("ok"), or go on to insert a row ("insert")      *)
join_library_check(lib, password, user_id) ==
    IF ~PasswordOk(lib, password) THEN "HTTP_401"
    ELSE IF is_library_member(user_id, lib) THEN "ok"
    ELSE "insert"

join_library_status(ident, password, user_id) ==
    IF JoinCandidates(ident) = {} THEN {"HTTP_404"}
    ELSE {join_library_check(lib, password, user_id) : lib \in JoinCandidates(ident)}

MemberRow(user_id, lib) == Row(user_id, lib, "member")

(* lines 128-158: lookup, password check, existence check *)
JoinLibrary(ident, password, user_id) ==
    /\ user_id \in DOMAIN users
    /\ IF JoinCandidates(ident) = {}
       THEN UNCHANGED inflight
       ELSE \E lib \in JoinCandidates(ident) :
              IF join_library_check(lib, password, user_id) = "insert"
              THEN /\ CanStart
                   /\ inflight' = inflight (+)
                         SetToBag({Request("join_insert", user_id, lib, NULL_ID, NoData, NoPerm)})
              ELSE UNCHANGED inflight
    /\ UNCHANGED <<dbVars, idVars, fk_enforced, resp>>

(* lines 159-162: insert the membership row and commit.  When the user or   *)
(* the library was deleted in the meantime the insert violates a foreign    *)
(* key: the commit raises where foreign keys are enforced and stores the    *)
(* row where they are not.                                                  *)
join_library_insert_status(r) ==
    IF fk_enforced /\ (r.user \notin DOMAIN users \/ r.lib \notin DOMAIN libraries)
    THEN "IntegrityError" ELSE "ok"

JoinLibraryInsert(r) ==
    /\ BagIn(r, inflight)
    /\ r.pc = "join_insert"
    /\ inflight' = inflight (-) SetToBag({r})
    /\ resp' = Response("join_library", r.user, r.lib, NULL_ID, join_library_insert_status(r))
    /\ IF join_library_insert_status(r) = "ok"
       THEN user_library' = user_library (+) SetToBag({MemberRow(r.user, r.lib)})
       ELSE UNCHANGED user_library
    /\ UNCHANGED <<users, libraries, books, user_book_status, idVars, fk_enforced>>

----------------------------------------------------------------------------
(* library_service.leave_library *)
(* leave_library without the check of the user's membership *)
leave_library_ok_for_nonmember(library_id, user_id) ==
    /\ library_id \in DOMAIN libraries
    /\ libraries[library_id].owner_id # user_id

(* leave_library without the refusal for the library's owner *)
leave_library_ok_for_owner(library_id, user_id) ==
    /\ library_id \in DOMAIN libraries
    /\ is_library_member(user_id, library_id)

leave_library_ok(library_id, user_id) ==
    /\ library_id \in DOMAIN libraries
    /\ libraries[library_id].owner_id # user_id
    /\ is_library_member(user_id, library_id)

LeaveLibrary(library_id, user_id) ==
    /\ user_id \in DOMAIN users
    /\ IF leave_library_ok(library_id, user_id)
       THEN \E m \in MembershipRows(user_id, library_id) :
              /\ user_library' = user_library (-) SetToBag({m})
              /\ resp' = Response("leave_library", user_id, library_id, NULL_ID, "ok")
       ELSE UNCHANGED <<user_library, resp>>
    /\ UNCHANGED <<users, libraries, books, user_book_status, idVars,
                   fk_enforced, inflight>>

----------------------------------------------------------------------------
(* library_service.delete_library.  The ORM cascades the delete to the      *)
(* library's books and user_library rows (models/library.py).  The          *)
(* user_book_status rows of those books are not part of the cascade: where  *)
(* foreign keys are enforced they make the delete fail.                     *)
(* a cascade that reaches the books of every library *)
BooksOf_any_library(library_id) == DOMAIN books

BooksOf(library_id) == {b \in DOMAIN books : books[b].library_id = library_id}

StatusRowsOfBooks(B) == {s \in user_book_status : s.book_id \in B}

(* delete_library without the check of the owner *)
delete_library_status_for_anyone(library_id, user_id, is_admin) ==
    IF library_id \notin DOMAIN libraries THEN "False"
    ELSE IF fk_enforced /\ StatusRowsOfBooks(BooksOf(library_id)) # {}
         THEN "IntegrityError"
    ELSE "ok"

delete_library_status(library_id, user_id, is_admin) ==
    IF library_id \notin DOMAIN libraries THEN "False"
    ELSE IF libraries[library_id].owner_id # user_id /\ ~is_admin THEN "False"
    ELSE IF fk_enforced /\ StatusRowsOfBooks(BooksOf(library_id)) # {}
         THEN "IntegrityError"
    ELSE "ok"

(* html_library.delete_library_submit passes no is_admin *)
DeleteLibrary(library_id, user_id) ==
    /\ user_id \in DOMAIN users
    /\ IF delete_library_status(library_id, user_id, FALSE) = "ok"
       THEN /\ libraries' = [l \in DOMAIN libraries \ {library_id} |-> libraries[l]]
            /\ books' = [b \in DOMAIN books \ BooksOf(library_id) |-> books[b]]
            /\ user_library' = WithoutRows(user_library,
                   {m \in BagToSet(user_library) : m.library_id = library_id})
            /\ resp' = Response("delete_library", user_id, library_id, NULL_ID, "ok")
       ELSE UNCHANGED <<libraries, books, user_library, resp>>
    /\ UNCHANGED <<users, user_book_status, idVars, fk_enforced, inflight>>

----------------------------------------------------------------------------
(* library_service.update_name *)
(* update_name open to every member of the library *)
update_name_status_for_member(new_name, lib_id, user_id) ==
    IF lib_id \notin DOMAIN libraries \/ ~is_library_member(user_id, lib_id)
    THEN "HTTP_400"
    ELSE IF \E l \in DOMAIN libraries \ {lib_id} : libraries[l].name = Strip(new_name)
    THEN "IntegrityError"
    ELSE "ok"

update_name_status(new_name, lib_id, user_id) ==
    IF lib_id \notin DOMAIN libraries \/ libraries[lib_id].owner_id # user_id
    THEN "HTTP_400"
    ELSE IF \E l \in DOMAIN libraries \ {lib_id} : libraries[l].name = Strip(new_name)
    THEN "IntegrityError"
    ELSE "ok"

UpdateName(new_name, lib_id, user_id) ==
    /\ user_id \in DOMAIN users
    /\ IF update_name_status(new_name, lib_id, user_id) = "ok"
       THEN /\ libraries' = [libraries EXCEPT ![lib_id].name = Strip(new_name)]
            /\ resp' = Response("update_name", user_id, lib_id, NULL_ID, "ok")
       ELSE UNCHANGED <<libraries, resp>>
    /\ UNCHANGED <<users, user_library, books, user_book_status, idVars,
                   fk_enforced, inflight>>

----------------------------------------------------------------------------
(* user_service.delete_user.  Deleting the User deletes its user_library    *)
(* rows (cascade on libraries_assoc) and sets library.owner_id and          *)
(* book.user_id of the rows that refer to it to NULL (models/user.py).      *)
(* It also sets user_book_status.user_id of the user's rows to NULL, which  *)
(* the NOT NULL column rejects: the delete is rolled back and answered 500. *)
delete_user_status(user_id) ==
    IF user_id \notin DOMAIN users THEN "HTTP_404"
    ELSE IF \E s \in user_book_status : s.user_id = user_id THEN "HTTP_500"
    ELSE "ok"

(* a User.books relationship with cascade="all, delete": the user's books   *)
(* are deleted with the user                                                *)
BooksWithoutUser_cascade(user_id) ==
    [b \in {x \in DOMAIN books : books[x].user_id # user_id} |-> books[b]]

(* models/user.py line 47: relationship("Book") without a cascade; the      *)
(* books stay and lose their reference to the user                          *)
BooksWithoutUser(user_id) ==
    [b \in DOMAIN books |->
        IF books[b].user_id = user_id
        THEN [books[b] EXCEPT !.user_id = NULL_ID]
        ELSE books[b]]

DeleteUser(user_id) ==
    /\ IF delete_user_status(user_id) = "ok"
       THEN /\ users' = [u \in DOMAIN users \ {user_id} |-> users[u]]
            /\ user_library' = WithoutRows(user_library,
                   {m \in BagToSet(user_library) : m.user_id = user_id})
            /\ libraries' = [l \in DOMAIN libraries |->
                   IF libraries[l].owner_id = user_id
                   THEN [libraries[l] EXCEPT !.owner_id = NULL_ID]
                   ELSE libraries[l]]
            /\ books' = BooksWithoutUser(user_id)
            /\ resp' = Response("delete_user", user_id, NULL_ID, NULL_ID, "ok")
       ELSE UNCHANGED <<users, user_library, libraries, books, resp>>
    /\ UNCHANGED <<user_book_status, idVars, fk_enforced, inflight>>

----------------------------------------------------------------------------
(* book_status_service *)
StatusRows(user_id, book_id) ==
    {s \in user_book_status : s.user_id = user_id /\ s.book_id = book_id}

(* get_user_book_status answering the default whatever row is stored *)
get_user_book_status_default(user_id, book_id) == "not_read"

get_user_book_status(user_id, book_id) ==
    IF StatusRows(user_id, book_id) = {} THEN "not_read"
    ELSE (CHOOSE s \in StatusRows(user_id, book_id) : TRUE).read_status

StatusRow(user_id, book_id, st) ==
    [user_id |-> user_id, book_id |-> book_id, read_status |-> st]

(* update_user_book_status: the rows after it has written new_status into   *)
(* the row it found, or has added a row when it found none                  *)
update_user_book_status(user_id, book_id, new_status) ==
    IF StatusRows(user_id, book_id) # {}
    THEN LET s == CHOOSE x \in StatusRows(user_id, book_id) : TRUE
         IN  (user_book_status \ {s}) \cup {StatusRow(user_id, book_id, new_status)}
    ELSE user_book_status \cup {StatusRow(user_id, book_id, new_status)}

(* the insert of a user_book_status row whose user or book is gone violates *)
(* a foreign key *)
StatusInsertRejected(user_id, book_id) ==
    /\ fk_enforced
    /\ StatusRows(user_id, book_id) = {}
    /\ (user_id \notin DOMAIN users \/ book_id \notin DOMAIN books)

----------------------------------------------------------------------------
(* book_service.get_book_permission *)
BookData == [author : Authors, description : Descriptions, read_status : ReadStatus]
NewBooks == {d \in BookData : d.author = "a1" /\ d.description = NULL
                                /\ d.read_status = "reading"}
BookEdits == {d \in BookData : d.author = "a2" /\ d.description = "d1"
                                 /\ d.read_status = "read"}

(* get_book_permission granting can_delete to the library owner only *)
book_permissions_owner_delete(user_role, book_user_id, user_id) ==
    LET is_owner == user_role = "owner"
        is_book_creator == book_user_id = user_id
        is_member_plus == user_role \in {"owner", "member"}
    IN  [can_edit_full |-> is_owner \/ is_book_creator,
         can_edit_status |-> is_member_plus,
         can_edit_description |-> is_member_plus,
         can_delete |-> is_owner,
         role |-> user_role,
         is_book_creator |-> is_book_creator]

book_permissions(user_role, book_user_id, user_id) ==
    LET is_owner == user_role = "owner"
        is_book_creator == book_user_id = user_id
        is_member_plus == user_role \in {"owner", "member"}
    IN  [can_edit_full |-> is_owner \/ is_book_creator,
         can_edit_status |-> is_member_plus,
         can_edit_description |-> is_member_plus,
         can_delete |-> is_owner \/ is_book_creator,
         role |-> user_role,
         is_book_creator |-> is_book_creator]

(* get_book_permission answering the book's creator without a membership row *)
get_book_permission_status_for_creator(user_id, book_id) ==
    IF book_id \notin DOMAIN books
       \/ books[book_id].library_id \notin DOMAIN libraries
    THEN "HTTP_404"
    ELSE IF ~is_library_member(user_id, books[book_id].library_id)
            /\ books[book_id].user_id # user_id THEN "HTTP_403"
    ELSE "ok"

get_book_permission_status(user_id, book_id) ==
    IF book_id \notin DOMAIN books
       \/ books[book_id].library_id \notin DOMAIN libraries
    THEN "HTTP_404"
    ELSE IF ~is_library_member(user_id, books[book_id].library_id) THEN "HTTP_403"
    ELSE "ok"

(* the permission sets the query can yield: one per user_library row of the *)
(* user in the book's library (result.first() of an unordered result)       *)
get_book_permission(user_id, book_id) ==
    {book_permissions(m.role, books[book_id].user_id, user_id) :
        m \in MembershipRows(user_id, books[book_id].library_id)}

(* a call of get_book_permission by a page that only shows the result       *)
(* (html_book.book_detail, html_book.edit_book_page)                        *)
GetBookPermission(user_id, book_id) ==
    /\ user_id \in DOMAIN users
    /\ get_book_permission_status(user_id, book_id) \in {"ok", "HTTP_403", "HTTP_404"}
    /\ UNCHANGED vars

----------------------------------------------------------------------------
(* book_service.create_book.  The Book row is committed (line 79) before    *)
(* update_user_book_status runs and commits on its own.                     *)
(* create_book without the membership check *)
create_book_status_for_anyone(user_id, library_id) ==
    IF library_id \notin DOMAIN libraries THEN "HTTP_404" ELSE "ok"

create_book_status(user_id, library_id) ==
    IF library_id \notin DOMAIN libraries THEN "HTTP_404"
    ELSE IF ~is_library_member(user_id, library_id) THEN "HTTP_403"
    ELSE "ok"

(* lines 48-80: checks, insert of the Book row, commit *)
create_book(data, user_id, library_id) ==
    /\ LET book == last_book_id + 1
       IN  IF create_book_status(user_id, library_id) = "ok"
           THEN /\ CanStart
                /\ last_book_id' = book
                /\ books' = [b \in DOMAIN books \cup {book} |->
                      IF b \in DOMAIN books THEN books[b]
                      ELSE [library_id |-> library_id, user_id |-> user_id,
                            author |-> data.author, description |-> data.description]]
                /\ inflight' = inflight (+)
                      SetToBag({Request("create_status", user_id, library_id, book, data, NoPerm)})
           ELSE UNCHANGED <<books, last_book_id, inflight>>
    /\ UNCHANGED <<users, libraries, user_library, user_book_status,
                   last_user_id, last_library_id, fk_enforced, resp>>

(* create_book while fewer than MaxBooks books were created *)
CreateBook(data, user_id, library_id) ==
    /\ last_book_id < MaxBooks
    /\ create_book(data, user_id, library_id)

(* create_book leaving the creator's read status at the column default *)
CreateBookStatus_default(r) ==
    /\ BagIn(r, inflight)
    /\ r.pc = "create_status"
    /\ ~StatusInsertRejected(r.user, r.book)
    /\ inflight' = inflight (-) SetToBag({r})
    /\ user_book_status' = update_user_book_status(r.user, r.book, "not_read")
    /\ resp' = Response("create_book", r.user, r.lib, r.book, "ok")
    /\ UNCHANGED <<users, libraries, user_library, books, idVars, fk_enforced>>

(* lines 84-86: the creator's read status is written and committed *)
CreateBookStatus(r) ==
    /\ BagIn(r, inflight)
    /\ r.pc = "create_status"
    /\ ~StatusInsertRejected(r.user, r.book)
    /\ inflight' = inflight (-) SetToBag({r})
    /\ user_book_status' = update_user_book_status(r.user, r.book, r.data.read_status)
    /\ resp' = Response("create_book", r.user, r.lib, r.book, "ok")
    /\ UNCHANGED <<users, libraries, user_library, books, idVars, fk_enforced>>

(* lines 90-103: the commit of the read status raises (a foreign key        *)
(* violation, answered 409 by the IntegrityError branch, or another         *)
(* persistence failure, answered 500); db.rollback() has only the           *)
(* uncommitted status row to undo                                           *)
CreateBookStatusFails(r) ==
    /\ BagIn(r, inflight)
    /\ r.pc = "create_status"
    /\ inflight' = inflight (-) SetToBag({r})
    /\ resp' = Response("create_book", r.user, r.lib, r.book,
                        IF StatusInsertRejected(r.user, r.book)
                        THEN "HTTP_409" ELSE "HTTP_500")
    /\ UNCHANGED <<dbVars, idVars, fk_enforced>>

----------------------------------------------------------------------------
(* book_service.update_book_with_permissions, as edit_book_submit calls it. *)
(* `author` stands for the protected fields author, title, genre, color,    *)
(* lib_address, room and shelf, which the same statements assign together.  *)
(* update_book_with_permissions without the assignment of the description *)
UpdatedBook_without_description(book, data, permissions) ==
    [book EXCEPT
        !.author = IF permissions.can_edit_full THEN data.author ELSE @]

UpdatedBook(book, data, permissions) ==
    [book EXCEPT
        !.description = IF data.description # NULL THEN data.description ELSE @,
        !.author = IF permissions.can_edit_full THEN data.author ELSE @]

update_book_with_permissions_status(user_id, book_id, permissions) ==
    IF ~permissions.can_edit_status THEN "None"
    ELSE IF book_id \notin DOMAIN books THEN "None"
    ELSE IF StatusInsertRejected(user_id, book_id) THEN "None"
    ELSE "True"

(* html_book.edit_book_submit lines 262-266: permissions are resolved *)
EditBookSubmit(user_id, book_id, data) ==
    /\ user_id \in DOMAIN users
    /\ IF get_book_permission_status(user_id, book_id) = "ok"
       THEN \E perm \in get_book_permission(user_id, book_id) :
              IF perm.can_edit_status
              THEN /\ CanStart
                   /\ inflight' = inflight (+)
                         SetToBag({Request("edit_apply", user_id,
                                           books[book_id].library_id, book_id, data, perm)})
              ELSE UNCHANGED inflight
       ELSE UNCHANGED inflight
    /\ UNCHANGED <<dbVars, idVars, fk_enforced, resp>>

(* html_book.edit_book_submit lines 268-299: the book is read, the          *)
(* protected fields of the form are replaced by the book's when             *)
(* can_edit_full is false, and update_book_with_permissions is given the    *)
(* permission object of line 263                                            *)
edit_book_apply_status(r) ==
    IF r.book \notin DOMAIN books THEN "not_found"
    ELSE update_book_with_permissions_status(r.user, r.book, r.perm)

EditBookApply(r) ==
    /\ BagIn(r, inflight)
    /\ r.pc = "edit_apply"
    /\ inflight' = inflight (-) SetToBag({r})
    /\ resp' = Response("edit_book_submit", r.user, r.lib, r.book, edit_book_apply_status(r))
    /\ IF edit_book_apply_status(r) = "True"
       THEN LET final_data == [r.data EXCEPT !.author =
                                  IF r.perm.can_edit_full THEN @ ELSE books[r.book].author]
            IN  /\ books' = [books EXCEPT ![r.book] = UpdatedBook(@, final_data, r.perm)]
                /\ user_book_status' =
                      update_user_book_status(r.user, r.book, r.data.read_status)
       ELSE UNCHANGED <<books, user_book_status>>
    /\ UNCHANGED <<users, libraries, user_library, idVars, fk_enforced>>

----------------------------------------------------------------------------
(* book_service.update_book, as api_books.edit_book calls it with the       *)
(* user_id of the query string                                              *)
update_book_status(user_id, book_id) ==
    IF user_id \notin DOMAIN users THEN "None"
    ELSE IF book_id \notin DOMAIN books \/ books[book_id].user_id # user_id THEN "None"
    ELSE "True"

UpdateBook(user_id, book_id, data) ==
    /\ IF update_book_status(user_id, book_id) = "True"
       THEN /\ books' = [books EXCEPT ![book_id].author = data.author,
                                      ![book_id].description = data.description]
            /\ user_book_status' =
                  update_user_book_status(user_id, book_id, data.read_status)
            /\ resp' = Response("update_book", user_id, NULL_ID, book_id, "True")
       ELSE UNCHANGED <<books, user_book_status, resp>>
    /\ UNCHANGED <<users, libraries, user_library, idVars, fk_enforced, inflight>>

----------------------------------------------------------------------------
(* book_service.delete_book.  The user_book_status rows of the book are not *)
(* deleted with it: where foreign keys are enforced they make the delete    *)
(* fail.                                                                    *)
delete_book_status(book_id) ==
    IF book_id \notin DOMAIN books THEN "None"
    ELSE IF fk_enforced /\ StatusRowsOfBooks({book_id}) # {} THEN "IntegrityError"
    ELSE "True"

(* html_book.delete_page: only the book's creator gets to delete_book *)
delete_page_status(user_id, book_id) ==
    IF book_id \notin DOMAIN books THEN "not_found"
    ELSE IF books[book_id].user_id # user_id THEN "denied"
    ELSE delete_book_status(book_id)

DeletePage(user_id, book_id) ==
    /\ user_id \in DOMAIN users
    /\ IF delete_page_status(user_id, book_id) = "True"
       THEN /\ books' = [b \in DOMAIN books \ {book_id} |-> books[b]]
            /\ resp' = Response("delete_page", user_id, NULL_ID, book_id, "True")
       ELSE UNCHANGED <<books, resp>>
    /\ UNCHANGED <<users, libraries, user_library, user_book_status, idVars,
                   fk_enforced, inflight>>

(* api_books.remove_book: delete_book without any check of the caller *)
RemoveBook(book_id) ==
    /\ IF delete_book_status(book_id) = "True"
       THEN /\ books' = [b \in DOMAIN books \ {book_id} |-> books[b]]
            /\ resp' = Response("remove_book", NULL_ID, NULL_ID, book_id, "True")
       ELSE UNCHANGED <<books, resp>>
    /\ UNCHANGED <<users, libraries, user_library, user_book_status, idVars,
                   fk_enforced, inflight>>

----------------------------------------------------------------------------
Next ==
    \/ \E reg \in Registrations : CreateUser(reg[1], reg[2])
    \/ \E l \in LibraryNames, p \in LibraryPasswords, u \in UserIds : CreateLibrary(l, p, u)
    \/ \E l \in LibraryNames, p \in LibraryPasswords, u \in UserIds :
          CreateLibraryFails(l, p, u)
    \/ \E i \in Identifiers, p \in Passwords, u \in UserIds : JoinLibrary(i, p, u)
    \/ \E r \in BagToSet(inflight) : JoinLibraryInsert(r)
    \/ \E l \in LibraryIds, u \in UserIds : LeaveLibrary(l, u)
    \/ \E l \in LibraryIds, u \in UserIds : DeleteLibrary(l, u)
    \/ \E n \in NewNames, l \in LibraryIds, u \in UserIds : UpdateName(n, l, u)
    \/ \E u \in UserIds : DeleteUser(u)
    \/ \E u \in UserIds, b \in BookIds : GetBookPermission(u, b)
    \/ \E d \in NewBooks, u \in UserIds, l \in LibraryIds : CreateBook(d, u, l)
    \/ \E r \in BagToSet(inflight) : CreateBookStatus(r)
    \/ \E r \in BagToSet(inflight) : CreateBookStatusFails(r)
    \/ \E u \in UserIds, b \in BookIds, d \in BookEdits : EditBookSubmit(u, b, d)
    \/ \E r \in BagToSet(inflight) : EditBookApply(r)
    \/ \E u \in UserIds, b \in BookIds, d \in BookEdits : UpdateBook(u, b, d)
    \/ \E u \in UserIds, b \in BookIds : DeletePage(u, b)
    \/ \E b \in BookIds : RemoveBook(b)

Spec == Init /\ [][Next]_vars

----------------------------------------------------------------------------
(* book_service.update_book as api_books.edit_book runs it, split at the    *)
(* await of book_status_service line 49: update_user_book_status has read   *)
(* the status row, and other requests can commit before it writes and       *)
(* commits (lines 50-59).  The UPDATE of the book (lines 117-130) belongs to *)
(* the same transaction and is committed or discarded with the status.      *)
StatusEdits == {d \in BookData : d.author = "a2" /\ d.description = "d1"}

(* the status row user_status returns: its read_status, or NULL for None *)
user_status(user_id, book_id) ==
    IF StatusRows(user_id, book_id) = {} THEN NULL
    ELSE get_user_book_status(user_id, book_id)

StatusRequest(user_id, book_id, data, loaded) ==
    [pc |-> "status_commit", user |-> user_id, lib |-> NULL_ID, book |-> book_id,
     data |-> data, perm |-> NoPerm, loaded |-> loaded]

(* a user_book_status table without the constraint uq_user_book *)
uq_user_book_absent(user_id, book_id) == FALSE

(* UniqueConstraint("user_id", "book_id", name="uq_user_book"): the insert  *)
(* of a row for a pair that has one is rejected                             *)
uq_user_book_violated(user_id, book_id) == StatusRows(user_id, book_id) # {}

(* line 51: the row that was read gets the new status; the ORM emits no     *)
(* UPDATE when the new status is the one it has read                        *)
status_update(user_id, book_id, loaded, new_status) ==
    IF loaded = new_status THEN user_book_status
    ELSE (user_book_status \ StatusRows(user_id, book_id))
            \cup {StatusRow(user_id, book_id, new_status)}

(* lines 53-58: a new row is added *)
status_insert(user_id, book_id, new_status) ==
    user_book_status \cup {StatusRow(user_id, book_id, new_status)}

UpdateBookStart(user_id, book_id, data) ==
    /\ IF update_book_status(user_id, book_id) = "True"
       THEN /\ CanStart
            /\ inflight' = inflight (+) SetToBag({StatusRequest(user_id, book_id, data,
                                                      user_status(user_id, book_id))})
       ELSE UNCHANGED inflight
    /\ UNCHANGED <<dbVars, idVars, fk_enforced, resp>>

update_book_commit_status(r) ==
    IF r.loaded = NULL /\ uq_user_book_violated(r.user, r.book) THEN "IntegrityError"
    ELSE IF r.loaded = NULL /\ StatusInsertRejected(r.user, r.book) THEN "IntegrityError"
    ELSE "True"

UpdateBookCommit(r) ==
    /\ BagIn(r, inflight)
    /\ r.pc = "status_commit"
    /\ inflight' = inflight (-) SetToBag({r})
    /\ resp' = Response("update_book", r.user, NULL_ID, r.book, update_book_commit_status(r))
    /\ IF update_book_commit_status(r) = "True"
       THEN /\ books' = [b \in DOMAIN books |->
                   IF b = r.book /\ books[b].user_id = r.user
                   THEN [books[b] EXCEPT !.author = r.data.author,
                                         !.description = r.data.description]
                   ELSE books[b]]
            /\ user_book_status' =
                  IF r.loaded = NULL
                  THEN status_insert(r.user, r.book, r.data.read_status)
                  ELSE status_update(r.user, r.book, r.loaded, r.data.read_status)
       ELSE UNCHANGED <<books, user_book_status>>
    /\ UNCHANGED <<users, libraries, user_library, idVars, fk_enforced>>

----------------------------------------------------------------------------
(* book_service.get_all_accessible_books *)
(* a list of the libraries the user owns instead of those the user has a    *)
(* membership row in                                                        *)
list_user_libraries_owned(user_id) ==
    {l \in DOMAIN libraries : libraries[l].owner_id = user_id}

(* library_service.list_user_libraries: select(Library).join(UserLibrary);  *)
(* the ids of its rows                                                      *)
list_user_libraries(user_id) ==
    {l \in DOMAIN libraries :
        \E m \in BagToSet(user_library) : m.library_id = l /\ m.user_id = user_id}

Skips == 0..MaxBooks
Limits == 1..(MaxBooks + 1)

(* the number of rows OFFSET skip LIMIT limit leaves of n rows *)
PageSize(n, skip, limit) ==
    IF n <= skip THEN 0
    ELSE IF n - skip < limit THEN n - skip
    ELSE limit

get_all_accessible_books_status(user_id) ==
    IF user_id \notin DOMAIN users THEN "HTTP_404" ELSE "ok"

(* the pages the query can return, each as the set of its books: created_at *)
(* has one default value for every row (models/book.py line 28), so the     *)
(* ORDER BY leaves the order of the books to the storage engine             *)
get_all_accessible_books(user_id, skip, limit) ==
    LET found == {b \in DOMAIN books : books[b].library_id \in list_user_libraries(user_id)}
    IN  {page \in SUBSET found :
            Cardinality(page) = PageSize(Cardinality(found), skip, limit)}

(* a request that lists the user's accessible books *)
GetAllAccessibleBooks(user_id, skip, limit) ==
    /\ get_all_accessible_books_status(user_id) \in {"ok", "HTTP_404"}
    /\ UNCHANGED vars

----------------------------------------------------------------------------
(* library_service.search_libraries_to_join.  The query and the names are   *)
(* compared character by character, so here a string is the sequence of its *)
(* characters.                                                              *)
Chars(name) ==
    CASE name = "Home" -> <<"H", "o", "m", "e">>
      [] name = "home" -> <<"h", "o", "m", "e">>
      [] name = "away" -> <<"a", "w", "a", "y">>
      [] name = "2" -> <<"2">>
      [] OTHER -> <<>>

Queries == {<<>>, <<" ">>, <<"H", "O">>, <<" ", "h", "o">>, <<"a">>}

(* a search that compares the characters as they are *)
Lower_as_is(s) == s

(* str.lower() *)
Lower(s) ==
    [i \in 1..Len(s) |-> CASE s[i] = "H" -> "h"
                            [] s[i] = "O" -> "o"
                            [] OTHER -> s[i]]

(* str.strip() *)
RECURSIVE StripChars(_)
StripChars(s) ==
    IF s = <<>> THEN s
    ELSE IF Head(s) = " " THEN StripChars(Tail(s))
    ELSE IF s[Len(s)] = " " THEN StripChars(SubSeq(s, 1, Len(s) - 1))
    ELSE s

(* sub in s *)
Contains(s, sub) ==
    \E i \in 0..(Len(s) - Len(sub)) : SubSeq(s, i + 1, i + Len(sub)) = sub

(* the libraries of the result; the code returns them ordered by name *)
search_libraries_to_join(user_id, query) ==
    LET q == StripChars(Lower(query))
    IN  IF q = <<>> THEN {}
        ELSE {l \in DOMAIN libraries \ list_user_libraries(user_id) :
                 Contains(Lower(Chars(libraries[l].name)), q)}

(* html_library.search_libraries *)
SearchLibraries(user_id, q) ==
    /\ user_id \in DOMAIN users
    /\ search_libraries_to_join(user_id, q) \subseteq DOMAIN libraries
    /\ UNCHANGED vars

----------------------------------------------------------------------------
(* A second scope: one library and one book more than Spec has, and only    *)
(* the requests that create, fill, list, leave and delete libraries.        *)
MoreLibraryNames == {"Home", "away"}
MoreLibraryIds == 1..(MaxLibraries + 1)

CreateLibraryMore(name, password, owner_id) ==
    /\ last_library_id < MaxLibraries + 1
    /\ create_library(name, password, owner_id)

CreateBookMore(data, user_id, library_id) ==
    /\ last_book_id < MaxBooks + 1
    /\ create_book(data, user_id, library_id)

NextLibraries ==
    \/ \E reg \in Registrations : CreateUser(reg[1], reg[2])
    \/ \E l \in MoreLibraryNames, u \in UserIds : CreateLibraryMore(l, NULL, u)
    \/ \E i \in MoreLibraryNames, u \in UserIds : JoinLibrary(i, NULL, u)
    \/ \E r \in BagToSet(inflight) : JoinLibraryInsert(r)
    \/ \E d \in NewBooks, u \in UserIds, l \in MoreLibraryIds : CreateBookMore(d, u, l)
    \/ \E r \in BagToSet(inflight) : CreateBookStatus(r)
    \/ \E u \in UserIds, sk \in Skips, lim \in Limits : GetAllAccessibleBooks(u, sk, lim)
    \/ \E u \in UserIds, q \in Queries : SearchLibraries(u, q)
    \/ \E l \in MoreLibraryIds, u \in UserIds : LeaveLibrary(l, u)
    \/ \E l \in MoreLibraryIds, u \in UserIds : DeleteLibrary(l, u)

SpecLibraries == Init /\ [][NextLibraries]_vars

(* A third scope: the requests that write read statuses, with every status  *)
(* as input and two books.                                                  *)
MoreBookIds == 1..(MaxBooks + 1)

NextStatus ==
    \/ \E reg \in Registrations : CreateUser(reg[1], reg[2])
    \/ \E l \in LibraryNames, u \in UserIds : CreateLibrary(l, NULL, u)
    \/ \E i \in LibraryNames, u \in UserIds : JoinLibrary(i, NULL, u)
    \/ \E r \in BagToSet(inflight) : JoinLibraryInsert(r)
    \/ \E d \in NewBooks, u \in UserIds, l \in LibraryIds : CreateBookMore(d, u, l)
    \/ \E r \in BagToSet(inflight) : CreateBookStatus(r)
    \/ \E u \in UserIds, b \in MoreBookIds, d \in StatusEdits : UpdateBookStart(u, b, d)
    \/ \E r \in BagToSet(inflight) : UpdateBookCommit(r)

SpecStatus == Init /\ [][NextStatus]_vars

----------------------------------------------------------------------------
(* Authentication (database/auth.py, utils/jwt.py).  A string is a sequence *)
(* of its parts; the empty sequence is the absent or empty string, which    *)
(* `if credentials`, `if cookie_token` and `if not token` treat alike.      *)
NoString == <<>>
BearerPrefix == <<"Bearer ">>
TokenExpiry == {"fresh", "expired"}

(* jwt.encode of the claims sub, exp, iat with the application's key *)
create_access_token(subject, exp) == <<"jwt", subject, exp>>

(* jwt.decode: the claims of a token the application has signed; a string   *)
(* that is no such token raises JWTError, an expired one                    *)
(* ExpiredSignatureError                                                    *)
decode_access_token(token) ==
    IF Len(token) # 3 \/ token[1] # "jwt" THEN [error |-> "JWTError", sub |-> NULL_ID]
    ELSE IF token[3] = "expired" THEN [error |-> "ExpiredSignatureError", sub |-> NULL_ID]
    ELSE [error |-> NULL, sub |-> token[2]]

(* html_users.login_submit stores the token in the cookie as "Bearer <token>" *)
login_submit_cookie(token) == BearerPrefix \o token

(* html_user.login_submit stores the token itself *)
login_cookie(token) == token

AccessTokens == {create_access_token(u, e) : u \in UserIds, e \in TokenExpiry}
Headers == {NoString, <<"garbage">>} \cup AccessTokens
Cookies == {NoString} \cup {login_cookie(t) : t \in AccessTokens}
              \cup {login_submit_cookie(t) : t \in AccessTokens}

(* lines 30-44: the header's credentials if there are any, else the cookie  *)
(* as it was sent                                                           *)
get_token_from_request(header, cookie) ==
    IF header # NoString THEN header
    ELSE IF cookie # NoString THEN cookie
    ELSE NoString

(* lines 58-108: the user the token authenticates, or 401 *)
get_current_user(token) ==
    IF token = NoString THEN [status |-> "HTTP_401", user |-> NULL_ID]
    ELSE LET data == decode_access_token(token)
         IN  IF data.error # NULL THEN [status |-> "HTTP_401", user |-> NULL_ID]
             ELSE IF data.sub \notin DOMAIN users
                  THEN [status |-> "HTTP_401", user |-> NULL_ID]
             ELSE [status |-> "ok", user |-> data.sub]

AuthResponse(header, cookie, result) ==
    [op |-> "get_current_user", user |-> result.user, lib |-> NULL_ID, book |-> NULL_ID,
     status |-> result.status, header |-> header, cookie |-> cookie]

(* a request to a route that depends on get_current_user *)
GetCurrentUser(header, cookie) ==
    /\ resp' = AuthResponse(header, cookie,
                            get_current_user(get_token_from_request(header, cookie)))
    /\ UNCHANGED <<dbVars, idVars, fk_enforced, inflight>>

----------------------------------------------------------------------------
(* user_service.update_user.  Of the fields it can change the model has the *)
(* email; an email that is None is not written.  The UPDATE of an email     *)
(* another user has violates the unique constraint on user.email and is     *)
(* answered 409.                                                            *)
NewEmails == {NULL, "a@x", "b@x"}
CurrentPasswords == {UserPassword, "bad"}

update_user_status(user_id, password, email) ==
    IF user_id \notin DOMAIN users THEN "HTTP_404"
    ELSE IF ~verify_password(password, users[user_id].password_hash) THEN "HTTP_401"
    ELSE IF email # NULL /\ \E u \in DOMAIN users \ {user_id} : users[u].email = email
         THEN "HTTP_409"
    ELSE "ok"

UpdateUser(user_id, password, email) ==
    /\ IF update_user_status(user_id, password, email) = "ok" /\ email # NULL
       THEN /\ users' = [users EXCEPT ![user_id].email = email]
            /\ resp' = Response("update_user", user_id, NULL_ID, NULL_ID, "ok")
       ELSE UNCHANGED <<users, resp>>
    /\ UNCHANGED <<libraries, user_library, books, user_book_status, idVars,
                   fk_enforced, inflight>>

(* A fourth scope: registration with and without an email, update and       *)
(* deletion of users, and authenticated requests.                           *)
MoreRegistrations == Registrations \cup {<<"cat", NULL>>, <<"cat", "a@x">>}

NextAuth ==
    \/ \E reg \in MoreRegistrations : CreateUser(reg[1], reg[2])
    \/ \E u \in UserIds, p \in CurrentPasswords, e \in NewEmails : UpdateUser(u, p, e)
    \/ \E u \in UserIds : DeleteUser(u)
    \/ \E h \in Headers, c \in Cookies : GetCurrentUser(h, c)

SpecAuth == Init /\ [][NextAuth]_vars

----------------------------------------------------------------------------
(* A fifth scope: libraries are created, renamed, joined and deleted, with  *)
(* names that are empty, blank or the digits of an id among the inputs.     *)
BlankNames == {"", " "}
MoreIdentifiers == {"home"} \cup {ToString(i) : i \in MoreLibraryIds}

NextNames ==
    \/ \E reg \in Registrations : CreateUser(reg[1], reg[2])
    \/ \E l \in BlankNames \cup {"home"}, u \in UserIds : CreateLibraryMore(l, NULL, u)
    \/ \E n \in BlankNames \cup {"home", "2"}, l \in MoreLibraryIds, u \in UserIds :
          UpdateName(n, l, u)
    \/ \E i \in MoreIdentifiers, u \in UserIds : JoinLibrary(i, NULL, u)
    \/ \E r \in BagToSet(inflight) : JoinLibraryInsert(r)
    \/ \E l \in MoreLibraryIds, u \in UserIds : DeleteLibrary(l, u)

SpecNames == Init /\ [][NextNames]_vars

----------------------------------------------------------------------------
(* Properties *)

private(l) == libraries[l].password_hash # NULL_HASH

(* the permission resolver gives user u can_delete for book b *)
CanDelete(u, b) ==
    /\ get_book_permission_status(u, b) = "ok"
    /\ \E perm \in get_book_permission(u, b) : perm.can_delete

(* C1: in every reachable state user_library holds at most one row per      *)
(* (user, library) pair, also when two join_library requests of the same    *)
(* user for the same library both run the existence check before either     *)
(* inserts its row.                                                         *)
OneMembershipPerPair ==
    \A u \in UserIds, l \in LibraryIds : MembershipCount(u, l) <= 1

(* C2: for a user who holds a membership row in a library, public or        *)
(* private, join_library returns the library without raising, whatever      *)
(* password is passed.                                                      *)
JoinByMemberReturnsLibrary ==
    \A u \in DOMAIN users, l \in DOMAIN libraries, p \in Passwords :
        is_library_member(u, l) => join_library_check(l, p, u) = "ok"

(* C3: a delete-book request of user u removes book b if and only if the    *)
(* permission resolver gives u can_delete for b (stated for a store that    *)
(* does not enforce foreign keys, where delete_book removes every book it   *)
(* is asked to).                                                            *)
DeleteIffCanDelete ==
    ~fk_enforced =>
        \A u \in DOMAIN users, b \in DOMAIN books :
            (delete_page_status(u, b) = "True") <=> CanDelete(u, b)

(* C4: when the user's membership in the book's library was removed after   *)
(* edit_book_submit resolved the permissions, the update that follows       *)
(* changes neither the book nor any read-status row.                        *)
UpdateUsesStoredRole ==
    [][\A r \in BagToSet(inflight) :
          ( /\ r.pc = "edit_apply"
            /\ inflight' = inflight (-) SetToBag({r})
            /\ r.book \in DOMAIN books
            /\ r.user \in DOMAIN users
            /\ ~is_library_member(r.user, books[r.book].library_id) )
          => UNCHANGED <<books, user_book_status>>]_vars

(* C5: create_library with the name of an existing library fails with       *)
(* Conflict (409).                                                          *)
DuplicateNameIsConflict ==
    \A name \in LibraryNames :
        (name # "" /\ NameTaken(name)) => create_library_status(name) = "HTTP_409"

(* C6: a create_book that failed at the creator's read-status upsert leaves *)
(* no committed book without the creator's read-status row.                 *)
CreateBookAllOrNothing ==
    (resp.op = "create_book" /\ resp.status # "ok" /\ resp.book # NULL_ID)
        => (resp.book \notin DOMAIN books \/ StatusRows(resp.user, resp.book) # {})

(* C7: every library that has an owner has a user_library row of that owner *)
(* with role owner.                                                         *)
OwnerIsMember ==
    \A l \in DOMAIN libraries :
        libraries[l].owner_id # NULL_ID =>
            BagIn([user_id |-> libraries[l].owner_id, library_id |-> l, role |-> "owner"],
                  user_library)

(* C7 witness: a member has just left a library that has an owner, or a     *)
(* user was just deleted while a library with an owner exists               *)
OwnerIsMemberWitness ==
    /\ resp.op \in {"leave_library", "delete_user"}
    /\ \E l \in DOMAIN libraries : libraries[l].owner_id # NULL_ID

(* C8: right after create_library succeeded the new library has exactly one *)
(* user_library row: the owner's, with role owner.                          *)
CreatorIsOnlyMember ==
    (resp.op = "create_library" /\ resp.status = "ok") =>
        /\ resp.lib \in DOMAIN libraries
        /\ libraries[resp.lib].owner_id = resp.user
        /\ \A m \in BagToSet(user_library) :
              m.library_id = resp.lib =>
                 (m.user_id = resp.user /\ m.role = "owner" /\ CopiesIn(m, user_library) = 1)
        /\ \E m \in BagToSet(user_library) : m.library_id = resp.lib

(* C8 witness: create_library has just succeeded *)
CreatorIsOnlyMemberWitness ==
    /\ resp.op = "create_library"
    /\ resp.status = "ok"
    /\ resp.lib \in DOMAIN libraries

(* C9: for a private library and a user without a membership row,           *)
(* join_library with a password other than the library's raises 401 and     *)
(* adds no row; with the library's password it goes on to insert, and the   *)
(* insert adds exactly one row, with role member.                           *)
JoinPrivateOutcome ==
    \A u \in DOMAIN users, l \in DOMAIN libraries, p \in Passwords :
        (private(l) /\ ~is_library_member(u, l)) =>
            join_library_check(l, p, u) =
                IF libraries[l].password_hash = <<p>> THEN "insert" ELSE "HTTP_401"

JoinPrivateEffect ==
    /\ \A i \in Identifiers, p \in Passwords, u \in UserIds :
          ( /\ ~UNCHANGED <<user_library, inflight>>
            /\ \A l \in JoinCandidates(i) :
                  private(l) /\ libraries[l].password_hash # <<p>> )
          => ~JoinLibrary(i, p, u)
    /\ \A r \in BagToSet(inflight) :
          ( /\ r.pc = "join_insert"
            /\ inflight' = inflight (-) SetToBag({r})
            /\ resp'.status = "ok" )
          => user_library' = user_library (+)
                SetToBag({[user_id |-> r.user, library_id |-> r.lib, role |-> "member"]})

JoinPrivate == []JoinPrivateOutcome /\ [][JoinPrivateEffect]_vars

(* C9 witness: a join of a private library has just inserted the user's row *)
JoinPrivateWitness ==
    /\ resp.op = "join_library"
    /\ resp.status = "ok"
    /\ resp.lib \in DOMAIN libraries
    /\ private(resp.lib)
    /\ BagIn([user_id |-> resp.user, library_id |-> resp.lib, role |-> "member"],
             user_library)

(* C10: for a user with a membership row of role r in the book's library,   *)
(* get_book_permission returns can_edit_full = can_delete = (r is owner or  *)
(* the user created the book) and can_edit_status = can_edit_description =  *)
(* (r is owner or member); the handler step that calls it leaves the store  *)
(* unchanged.                                                               *)
PermissionsFollowRole ==
    \A u \in DOMAIN users, b \in DOMAIN books :
        \A m \in MembershipRows(u, books[b].library_id) :
            /\ get_book_permission_status(u, b) = "ok"
            /\ \E perm \in get_book_permission(u, b) : perm.role = m.role
            /\ \A perm \in get_book_permission(u, b) :
                  perm.role = m.role =>
                     /\ perm.can_edit_full = (m.role = "owner" \/ books[b].user_id = u)
                     /\ perm.can_delete = (m.role = "owner" \/ books[b].user_id = u)
                     /\ perm.can_edit_status = (m.role \in {"owner", "member"})
                     /\ perm.can_edit_description = (m.role \in {"owner", "member"})

PermissionQueryReadOnly ==
    (\E r \in BagToSet(inflight') :
        r.pc = "edit_apply" /\ CopiesIn(r, inflight') > CopiesIn(r, inflight))
    => UNCHANGED dbVars

BookPermissions == []PermissionsFollowRole /\ [][PermissionQueryReadOnly]_vars

(* C10 witness: edit_book_submit holds the permissions get_book_permission  *)
(* returned for a member who is neither the owner nor the book's creator    *)
BookPermissionsWitness ==
    \E r \in BagToSet(inflight) :
        /\ r.pc = "edit_apply"
        /\ r.perm.role = "member"
        /\ ~r.perm.can_edit_full
        /\ ~r.perm.can_delete
        /\ r.perm.can_edit_status
        /\ r.perm.can_edit_description

(* the rows of user_library of user u in library l *)
HasRow(u, l) ==
    \E m \in BagToSet(user_library) : m.user_id = u /\ m.library_id = l

(* request r has entered inflight in this step *)
Started(r) == CopiesIn(r, inflight') > CopiesIn(r, inflight)

(* C11: get_book_permission(U, B) fails with 404 when book B does not       *)
(* exist and with 403 when B exists and U has no membership row in B's      *)
(* library, also when U created B; in neither case does the caller get a    *)
(* permission set.                                                          *)
PermissionErrors ==
    \A u \in DOMAIN users, b \in BookIds :
        /\ b \notin DOMAIN books => get_book_permission_status(u, b) = "HTTP_404"
        /\ (b \in DOMAIN books /\ ~HasRow(u, books[b].library_id)) =>
              /\ get_book_permission_status(u, b) = "HTTP_403"
              /\ get_book_permission(u, b) = {}

NoPermissionsOnError ==
    \A r \in BagToSet(inflight') :
        (r.pc = "edit_apply" /\ Started(r)) =>
            /\ r.book \in DOMAIN books
            /\ HasRow(r.user, books[r.book].library_id)

PermissionFailures == []PermissionErrors /\ [][NoPermissionsOnError]_vars

(* C11 witness: the creator of a book has left the book's library and       *)
(* get_book_permission answers 403 for them                                 *)
PermissionFailuresWitness ==
    \E b \in DOMAIN books :
        /\ books[b].user_id \in DOMAIN users
        /\ ~HasRow(books[b].user_id, books[b].library_id)
        /\ get_book_permission_status(books[b].user_id, b) = "HTTP_403"

(* C12: when a member who is neither the library's owner nor the book's     *)
(* creator submits an update that changes author and description, the       *)
(* protected fields of the book (author) stay as they are, and the book's   *)
(* description and the member's read status take the submitted values.      *)
MemberGetsPartialRights ==
    \A r \in BagToSet(inflight') :
        ( /\ r.pc = "edit_apply"
          /\ Started(r)
          /\ books[r.book].user_id # r.user
          /\ \A m \in MembershipRows(r.user, books[r.book].library_id) : m.role = "member" )
        => /\ ~r.perm.can_edit_full
           /\ r.perm.can_edit_status
           /\ r.perm.can_edit_description

MemberEditEffect ==
    \A r \in BagToSet(inflight) :
        ( /\ r.pc = "edit_apply"
          /\ inflight' = inflight (-) SetToBag({r})
          /\ r.perm.role = "member"
          /\ ~r.perm.is_book_creator
          /\ r.book \in DOMAIN books
          /\ r.user \in DOMAIN users
          /\ r.data.description # NULL
          /\ r.data.author # books[r.book].author )
        => /\ resp'.status = "True"
           /\ r.book \in DOMAIN books'
           /\ books'[r.book].author = books[r.book].author
           /\ books'[r.book].user_id = books[r.book].user_id
           /\ books'[r.book].library_id = books[r.book].library_id
           /\ books'[r.book].description = r.data.description
           /\ {s.read_status : s \in {x \in user_book_status' :
                   x.user_id = r.user /\ x.book_id = r.book}} = {r.data.read_status}

MemberEdit == [][MemberGetsPartialRights /\ MemberEditEffect]_vars

(* C12 witness: the update of a member who is neither owner nor creator has *)
(* been applied: the author is the creator's, description and read status   *)
(* are the member's                                                         *)
MemberEditWitness ==
    /\ resp.op = "edit_book_submit"
    /\ resp.status = "True"
    /\ resp.book \in DOMAIN books
    /\ books[resp.book].user_id # resp.user
    /\ BagIn([user_id |-> resp.user, library_id |-> books[resp.book].library_id,
              role |-> "member"], user_library)
    /\ books[resp.book].author = "a1"
    /\ books[resp.book].description = "d1"
    /\ [user_id |-> resp.user, book_id |-> resp.book, read_status |-> "read"]
          \in user_book_status

(* C13: leave_library(L, U) does not succeed and changes no membership row  *)
(* when L does not exist, when U is L's owner or when U has no row in L;    *)
(* otherwise it succeeds and deletes one row of U in L and nothing else.    *)
LeaveAllowed(l, u) ==
    /\ l \in DOMAIN libraries
    /\ libraries[l].owner_id # u
    /\ HasRow(u, l)

LeaveOutcome ==
    \A l \in LibraryIds, u \in DOMAIN users :
        leave_library_ok(l, u) <=> LeaveAllowed(l, u)

LeaveEffect ==
    \A l \in LibraryIds, u \in UserIds :
        (user_library' # user_library /\ LeaveLibrary(l, u)) =>
            /\ LeaveAllowed(l, u)
            /\ \E m \in BagToSet(user_library) :
                  /\ m.user_id = u
                  /\ m.library_id = l
                  /\ user_library' = user_library (-) SetToBag({m})
            /\ BagCardinality(user_library') = BagCardinality(user_library) - 1
            /\ UNCHANGED <<users, libraries, books, user_book_status>>

LeaveLibraryContract == []LeaveOutcome /\ [][LeaveEffect]_vars

(* C13 witness: a member has left and holds no row in the library any more, *)
(* while the owner's row is still there                                     *)
LeaveLibraryWitness ==
    /\ resp.op = "leave_library"
    /\ resp.status = "ok"
    /\ resp.lib \in DOMAIN libraries
    /\ resp.user \in DOMAIN users
    /\ ~HasRow(resp.user, resp.lib)
    /\ HasRow(libraries[resp.lib].owner_id, resp.lib)

(* C14: delete_library(L, U, is_admin) deletes L only if U is L's owner or  *)
(* is_admin is true; otherwise, also for an L that does not exist, it       *)
(* returns a non-success result and library, books and membership rows stay *)
(* as they are.                                                             *)
DeleteOutcome ==
    \A l \in LibraryIds, u \in DOMAIN users, a \in BOOLEAN :
        /\ delete_library_status(l, u, a) = "ok" =>
              (l \in DOMAIN libraries /\ (libraries[l].owner_id = u \/ a))
        /\ (l \notin DOMAIN libraries \/ (libraries[l].owner_id # u /\ ~a)) =>
              delete_library_status(l, u, a) = "False"

DeleteOnlyByOwner ==
    /\ \A l \in DOMAIN libraries :
          l \notin DOMAIN libraries' =>
              /\ libraries[l].owner_id \in DOMAIN users
              /\ resp' = [op |-> "delete_library", user |-> libraries[l].owner_id,
                          lib |-> l, book |-> NULL_ID, status |-> "ok"]
    /\ \A l \in LibraryIds, u \in UserIds :
          ( /\ ~UNCHANGED <<libraries, books, user_library>>
            /\ DeleteLibrary(l, u) )
          => (l \in DOMAIN libraries /\ libraries[l].owner_id = u)

DeleteLibraryContract == []DeleteOutcome /\ [][DeleteOnlyByOwner]_vars

(* C14 witness: the owner has deleted the library while a second user, who  *)
(* could not have, exists                                                   *)
DeleteLibraryWitness ==
    /\ resp.op = "delete_library"
    /\ resp.status = "ok"
    /\ resp.lib \notin DOMAIN libraries
    /\ \E u \in DOMAIN users : u # resp.user

(* C16: create_library is all-or-nothing: a failure after the library row   *)
(* was inserted and before the owner's membership row is committed leaves   *)
(* no library row, so every step that adds a library to the store adds its  *)
(* owner's membership row with it.                                          *)
CreateLibraryAtomic ==
    /\ \A l \in DOMAIN libraries' \ DOMAIN libraries :
          BagIn([user_id |-> libraries'[l].owner_id, library_id |-> l, role |-> "owner"],
                user_library')
    /\ (resp' # resp /\ resp'.op = "create_library" /\ resp'.status # "ok")
          => UNCHANGED <<libraries, user_library>>

CreateLibraryAllOrNothing == [][CreateLibraryAtomic]_vars

(* C16 witness: a create_library has failed after its flush and the store   *)
(* holds no library                                                         *)
CreateLibraryAllOrNothingWitness ==
    /\ resp.op = "create_library"
    /\ resp.status = "Exception"
    /\ DOMAIN libraries = {}
    /\ user_library = EmptyBag

(* C17: create_book(data, U, L) fails with 404 if library L does not exist  *)
(* and with 403 if U has no membership row in L, and inserts no book and no *)
(* read-status row then; every book that enters the store is in an existing *)
(* library in which its creator holds a membership row.                     *)
CreateBookErrors ==
    \A u \in UserIds, l \in LibraryIds :
        /\ l \notin DOMAIN libraries => create_book_status(u, l) = "HTTP_404"
        /\ (l \in DOMAIN libraries /\ ~HasRow(u, l)) => create_book_status(u, l) = "HTTP_403"

CreateBookByMember ==
    /\ \A b \in DOMAIN books' \ DOMAIN books :
          /\ books'[b].library_id \in DOMAIN libraries
          /\ HasRow(books'[b].user_id, books'[b].library_id)
    /\ \A d \in NewBooks, u \in UserIds, l \in LibraryIds :
          ( /\ ~UNCHANGED <<books, user_book_status, inflight>>
            /\ CreateBook(d, u, l) )
          => (l \in DOMAIN libraries /\ HasRow(u, l))

CreateBookInserts ==
    \A d \in NewBooks, u \in UserIds, l \in LibraryIds :
        (books' # books /\ CreateBook(d, u, l)) =>
            \E b \in DOMAIN books' \ DOMAIN books :
                /\ DOMAIN books' = DOMAIN books \cup {b}
                /\ \A x \in DOMAIN books : books'[x] = books[x]
                /\ books'[b].library_id = l
                /\ books'[b].user_id = u
                /\ books'[b].author = d.author
                /\ books'[b].description = d.description
                /\ user_book_status' = user_book_status

CreateBookWritesStatus ==
    \A r \in BagToSet(inflight) :
        ( /\ r.pc = "create_status"
          /\ inflight' = inflight (-) SetToBag({r})
          /\ resp'.status = "ok" )
        => /\ {s.read_status : s \in {x \in user_book_status' :
                  x.user_id = r.user /\ x.book_id = r.book}} = {r.data.read_status}
           /\ \A s \in user_book_status' \ user_book_status :
                  s.user_id = r.user /\ s.book_id = r.book
           /\ \A s \in user_book_status \ user_book_status' :
                  s.user_id = r.user /\ s.book_id = r.book
           /\ books' = books

CreateBookResult == [][CreateBookInserts /\ CreateBookWritesStatus]_vars

(* C18 witness: create_book has succeeded; the book is in the library with  *)
(* its creator, and the only read-status row is the creator's               *)
CreateBookResultWitness ==
    /\ resp.op = "create_book"
    /\ resp.status = "ok"
    /\ resp.book \in DOMAIN books
    /\ books[resp.book].user_id = resp.user
    /\ books[resp.book].library_id = resp.lib
    /\ user_book_status =
          {[user_id |-> resp.user, book_id |-> resp.book, read_status |-> "reading"]}
    /\ \E u \in DOMAIN users : u # resp.user

(* C15: after delete_library(L) has succeeded no book of L and no           *)
(* membership row for L remains, every user still exists, and the other     *)
(* libraries, their books and their membership rows are as before.          *)
DeleteLibraryCascade ==
    \A l \in DOMAIN libraries :
        l \notin DOMAIN libraries' =>
            /\ \A b \in DOMAIN books' : books'[b].library_id # l
            /\ \A m \in BagToSet(user_library') : m.library_id # l
            /\ users' = users
            /\ \A k \in DOMAIN libraries \ {l} :
                  k \in DOMAIN libraries' /\ libraries'[k] = libraries[k]
            /\ \A b \in DOMAIN books :
                  books[b].library_id # l => (b \in DOMAIN books' /\ books'[b] = books[b])
            /\ \A m \in BagToSet(user_library) :
                  m.library_id # l => CopiesIn(m, user_library') = CopiesIn(m, user_library)

DeleteLibraryEffect == [][DeleteLibraryCascade]_vars

(* C15 witness: a library that had a book was deleted; both users exist,    *)
(* and another library still has its book, its owner and a member           *)
DeleteLibraryEffectWitness ==
    /\ resp.op = "delete_library"
    /\ resp.status = "ok"
    /\ resp.lib \notin DOMAIN libraries
    /\ Cardinality(DOMAIN users) = 2
    /\ last_book_id = 2
    /\ \E k \in DOMAIN libraries :
          /\ \E b \in DOMAIN books : books[b].library_id = k
          /\ \E m \in BagToSet(user_library) : m.library_id = k /\ m.role = "member"
          /\ \E m \in BagToSet(user_library) : m.library_id = k /\ m.role = "owner"

(* C19: get_user_book_status(U, B) returns not_read when (U, B) has no      *)
(* read-status row; after update_user_book_status(U, B, s) it returns s,    *)
(* for every s in {not_read, reading, read}; a write for another user or    *)
(* another book does not change what it returns for (U, B).                 *)
StatusDefault ==
    \A u \in UserIds, b \in MoreBookIds :
        (\A s \in user_book_status : ~(s.user_id = u /\ s.book_id = b))
            => get_user_book_status(u, b) = "not_read"

StatusWritten ==
    \A r \in BagToSet(inflight) :
        ( /\ r.pc = "status_commit"
          /\ inflight' = inflight (-) SetToBag({r})
          /\ r.loaded = user_status(r.user, r.book) )
        => /\ resp'.status = "True"
           /\ get_user_book_status(r.user, r.book)' = r.data.read_status
           /\ \A u \in UserIds, b \in MoreBookIds :
                 (u # r.user \/ b # r.book) =>
                     /\ get_user_book_status(u, b)' = get_user_book_status(u, b)
                     /\ {x \in user_book_status' : x.user_id = u /\ x.book_id = b}
                           = {x \in user_book_status : x.user_id = u /\ x.book_id = b}

StatusReadsLastWrite == []StatusDefault /\ [][StatusWritten]_vars

(* C19 witness: not_read was written over another status for one pair,     *)
(* while another pair has a row with another status                         *)
StatusReadsLastWriteWitness ==
    /\ resp.op = "update_book"
    /\ resp.status = "True"
    /\ [user_id |-> resp.user, book_id |-> resp.book, read_status |-> "not_read"]
          \in user_book_status
    /\ \E s \in user_book_status :
          (s.user_id # resp.user \/ s.book_id # resp.book) /\ s.read_status # "not_read"

(* C20: in every reachable state there is at most one read-status row per   *)
(* (user, book) pair; an update for a pair that has a row changes the row   *)
(* and adds none, also when two updates of the pair interleave.             *)
OneStatusPerPair ==
    \A s, t \in user_book_status :
        (s.user_id = t.user_id /\ s.book_id = t.book_id) => s = t

UpdateReplaces ==
    \A r \in BagToSet(inflight) :
        ( /\ r.pc = "status_commit"
          /\ inflight' = inflight (-) SetToBag({r})
          /\ \E s \in user_book_status : s.user_id = r.user /\ s.book_id = r.book )
        => Cardinality(user_book_status') = Cardinality(user_book_status)

StatusPairUnique == []OneStatusPerPair /\ [][UpdateReplaces]_vars

(* C20 witness: of two interleaved updates of a pair without a row the      *)
(* second was rejected, and the pair has one row                            *)
StatusPairUniqueWitness ==
    /\ resp.op = "update_book"
    /\ resp.status = "IntegrityError"
    /\ Cardinality({s \in user_book_status :
                       s.user_id = resp.user /\ s.book_id = resp.book}) = 1

(* C21: the token that authenticates a request is the header's token when a *)
(* header is sent, and otherwise the access_token cookie's value without a  *)
(* leading "Bearer "; a fresh token of an existing user in a cookie with    *)
(* the prefix authenticates that user as the token without the prefix does. *)
CookiePrefixIsRemoved ==
    \A u \in UserIds :
        LET token == <<"jwt", u, "fresh">>
        IN  ( /\ resp.op = "get_current_user"
              /\ u \in DOMAIN users
              /\ resp.header = <<>>
              /\ resp.cookie = <<"Bearer ">> \o token )
            => (resp.status = "ok" /\ resp.user = u)

(* two users never share a username or a present email *)
UsersUnique ==
    \A u, v \in DOMAIN users :
        u # v => /\ users[u].username # users[v].username
                 /\ (users[u].email # NULL => users[u].email # users[v].email)

(* C22: create_user fails with 409 exactly when an existing user has the    *)
(* same username or the same email, where an absent email never conflicts;  *)
(* and no two users share a username or a present email.                    *)
CreateUserConflictExact ==
    /\ UsersUnique
    /\ \A reg \in MoreRegistrations :
          (create_user_status(reg[1], reg[2]) = "HTTP_409")
             <=> \E u \in DOMAIN users :
                    \/ users[u].username = reg[1]
                    \/ (reg[2] # NULL /\ users[u].email = reg[2])

(* C23: update_name(new_name, L, U) changes L's name only when U is L's     *)
(* owner; for every other user, member or not, and for a library that does  *)
(* not exist it fails with 403 or 400 and every library keeps its name.     *)
RenameRefused ==
    \A n \in NewNames, l \in LibraryIds, u \in DOMAIN users :
        (l \notin DOMAIN libraries \/ libraries[l].owner_id # u)
            => update_name_status(n, l, u) \in {"HTTP_400", "HTTP_403"}

RenameByOwner ==
    /\ \A l \in DOMAIN libraries \cap DOMAIN libraries' :
          libraries'[l].name # libraries[l].name =>
              /\ libraries[l].owner_id \in DOMAIN users
              /\ resp' = [op |-> "update_name", user |-> libraries[l].owner_id,
                          lib |-> l, book |-> NULL_ID, status |-> "ok"]
              /\ \A k \in DOMAIN libraries \ {l} :
                    k \in DOMAIN libraries' /\ libraries'[k] = libraries[k]
    /\ \A n \in NewNames, l \in LibraryIds, u \in UserIds :
          (libraries' # libraries /\ UpdateName(n, l, u))
             => (l \in DOMAIN libraries /\ libraries[l].owner_id = u)

RenameOnlyByOwner == []RenameRefused /\ [][RenameByOwner]_vars

(* C23 witness: the owner has renamed the library while another user, who   *)
(* is refused, is a member of it                                            *)
RenameOnlyByOwnerWitness ==
    /\ resp.op = "update_name"
    /\ resp.status = "ok"
    /\ resp.lib \in DOMAIN libraries
    /\ libraries[resp.lib].name = "2"
    /\ \E u \in DOMAIN users :
          /\ u # resp.user
          /\ HasRow(u, resp.lib)
          /\ update_name_status("2", resp.lib, u) = "HTTP_400"

(* C24: get_all_accessible_books(U) returns, within offset and limit,       *)
(* exactly the books whose library has a membership row of U, owned or      *)
(* joined, and never a book of another library: the books of a library are  *)
(* in U's result while U has a row in it and not after U has left it or it  *)
(* was deleted.                                                             *)
AccessibleBooksExact ==
    \A u \in DOMAIN users :
        LET expected == {b \in DOMAIN books : HasRow(u, books[b].library_id)}
        IN  /\ get_all_accessible_books_status(u) = "ok"
            /\ get_all_accessible_books(u, 0, MaxBooks + 1) = {expected}
            /\ \A sk \in Skips, lim \in Limits :
                  /\ get_all_accessible_books(u, sk, lim) # {}
                  /\ \A page \in get_all_accessible_books(u, sk, lim) :
                        /\ page \subseteq expected
                        /\ Cardinality(page) <= lim
                        /\ Cardinality(page) + sk <= Cardinality(expected) \/ page = {}

(* C24 witness: a user has left a library that has a book: the book is not  *)
(* in the user's result any more, and the book of another library the user  *)
(* is in still is                                                           *)
AccessibleBooksExactWitness ==
    /\ resp.op = "leave_library"
    /\ resp.status = "ok"
    /\ resp.user \in DOMAIN users
    /\ \E b \in DOMAIN books :
          /\ books[b].library_id = resp.lib
          /\ \A page \in get_all_accessible_books(resp.user, 0, MaxBooks + 1) : b \notin page
    /\ \E b \in DOMAIN books :
          /\ books[b].library_id # resp.lib
          /\ \A page \in get_all_accessible_books(resp.user, 0, MaxBooks + 1) : b \in page

(* the queries, without surrounding whitespace, a library name contains     *)
(* when case is ignored                                                     *)
TrimmedMatch(query, name) ==
    \/ name = "Home" /\ query \in {<<"H", "O">>, <<" ", "h", "o">>}
    \/ name = "away" /\ query = <<"a">>

(* C25: search_libraries_to_join(U, q) returns nothing when q is empty or   *)
(* whitespace, and otherwise exactly the libraries in which U has no        *)
(* membership row and whose name contains q without its surrounding         *)
(* whitespace, case ignored; a library is no longer returned once U has     *)
(* joined it.                                                               *)
SearchMatchesTrimmedQuery ==
    \A u \in DOMAIN users, q \in Queries :
        search_libraries_to_join(u, q) =
            {l \in DOMAIN libraries :
                ~HasRow(u, l) /\ TrimmedMatch(q, libraries[l].name)}

(* C25 witness: a user has joined the library Home and no longer finds it,  *)
(* and still finds the library away                                         *)
SearchMatchesTrimmedQueryWitness ==
    /\ resp.op = "join_library"
    /\ resp.status = "ok"
    /\ resp.lib \in DOMAIN libraries
    /\ libraries[resp.lib].name = "Home"
    /\ resp.user \in DOMAIN users
    /\ search_libraries_to_join(resp.user, <<"H", "O">>) = {}
    /\ \E l \in DOMAIN libraries :
          /\ libraries[l].name = "away"
          /\ search_libraries_to_join(resp.user, <<"a">>) = {l}

(* the queries, as they were typed, a library name contains when case is    *)
(* ignored                                                                  *)
Match(query, name) ==
    \/ name = "Home" /\ query = <<"H", "O">>
    \/ name = "away" /\ query = <<"a">>

(* C25 as stated: for a q that is not empty or whitespace the result is     *)
(* exactly the libraries without a row of U whose name contains q, case     *)
(* ignored                                                                  *)
SearchMatchesQuery ==
    \A u \in DOMAIN users, q \in Queries :
        search_libraries_to_join(u, q) =
            {l \in DOMAIN libraries : ~HasRow(u, l) /\ Match(q, libraries[l].name)}

(* C26: a delete_user(U) that succeeds removes no book: every book, those U *)
(* created included, still exists in the library it was in.                 *)
DeleteUserFrame ==
    \A u \in DOMAIN users :
        u \notin DOMAIN users' =>
            /\ DOMAIN books' = DOMAIN books
            /\ DOMAIN libraries' = DOMAIN libraries
            /\ \A b \in DOMAIN books :
                  /\ books'[b].library_id = books[b].library_id
                  /\ books'[b].author = books[b].author
                  /\ books'[b].description = books[b].description
                  /\ books'[b].user_id = IF books[b].user_id = u THEN NULL_ID
                                        ELSE books[b].user_id

DeleteUserKeepsBooks == [][DeleteUserFrame]_vars

(* C26 witness: the creator of a book was deleted and the book is in its    *)
(* library                                                                  *)
DeleteUserKeepsBooksWitness ==
    /\ resp.op = "delete_user"
    /\ resp.status = "ok"
    /\ resp.user \notin DOMAIN users
    /\ \E b \in DOMAIN books :
          /\ books[b].user_id = NULL_ID
          /\ books[b].library_id \in DOMAIN libraries

(* C27: update_book changes no field of a book B and writes no read-status  *)
(* row for (U, B) on behalf of a user U who has no membership row in B's    *)
(* library; a creator who has left the library cannot edit the book through *)
(* update_book.                                                             *)
UpdateBookNeedsMembership ==
    [][\A u \in UserIds, b \in DOMAIN books :
          ( /\ resp' # resp
            /\ resp'.op = "update_book"
            /\ resp'.user = u
            /\ resp'.book = b
            /\ books[b].library_id \in DOMAIN libraries
            /\ ~HasRow(u, books[b].library_id) )
          => UNCHANGED <<books, user_book_status>>]_vars

(* C28: every read-status row refers to a book that exists: a step that     *)
(* deletes book B, by delete_book or by delete_library of B's library,      *)
(* leaves no read-status row of book B.                                     *)
DeletedBookLeavesNoStatus ==
    [][\A b \in DOMAIN books :
          b \notin DOMAIN books' =>
              \A s \in user_book_status' : s.book_id # b]_vars

(* C29: in every reachable state every library has a name that is not empty *)
(* after trimming, and no two libraries share a name.                       *)
LibraryNamesValid ==
    /\ \A l \in DOMAIN libraries :
          libraries[l].name \notin {"", " "}
    /\ \A k, l \in DOMAIN libraries :
          k # l => libraries[k].name # libraries[l].name

(* C30: join_library's target is determined by the identifier alone: a      *)
(* numeric identifier that is the id of a library selects that library,     *)
(* also when its digits are another library's name, and the membership is   *)
(* added to it only; an identifier that matches no library adds no row.     *)
JoinTargetIsDetermined ==
    [][\A i \in MoreIdentifiers, u \in UserIds :
          (inflight' # inflight /\ JoinLibrary(i, NULL, u)) =>
              /\ JoinCandidates(i) # {}
              /\ \A r \in BagToSet(inflight') :
                    (r.pc = "join_insert" /\ Started(r)) =>
                        r.lib = IF IsDigit(i) /\ ToInt(i) \in DOMAIN libraries
                                THEN ToInt(i)
                                ELSE CHOOSE l \in DOMAIN libraries : libraries[l].name = i]_vars
====
